---- MODULE Spec2Model ----
(***************************************************************************)
(* Model of commons/genetics.py: the candidate (Individual), the genetic   *)
(* operators (Genetic) and the population container (Population).          *)
(*                                                                         *)
(* Python objects live in a heap: `heap[r]` is the Individual with         *)
(* reference r, reference 0 is an object that is not an Individual.        *)
(* `population` is Population._population as a list of references, so a    *)
(* list may hold the same object twice and a shallow copy can be told from *)
(* a deep one.  After every call the unreachable objects are dropped and   *)
(* the live ones renumbered in population order (garbage collection).      *)
(***************************************************************************)
EXTENDS Integers, Sequences, FiniteSets, TLC

\* ------------------------------------------------------------- bounds
MaxPop == 2             \* largest population / caller-supplied list
L == 2                  \* genotype length (fixed by the search space)
MaxAge == 2             \* largest age a caller gives a new Individual
MaxLoci == 2            \* largest n_loci passed to mutate
MaxDen == 2             \* largest denominator / magnitude of a normalized score
RecursionLimit == 3     \* interpreter recursion limit (depth of nested calls)

Genome == {"a", "b"}    \* Genetic.genome: the gene alphabet
Genotypes == [1..L -> Genome]
\* genotypes a caller may try to store: the valid ones, one with a gene out of
\* the alphabet and one of the wrong length
InvalidGenotypes == {[i \in 1..L |-> "z"], [i \in 1..(L-1) |-> "a"]}
NewGenotypes == Genotypes \cup InvalidGenotypes

ScoreNames == {"fitness", "age"}     \* attribute names passed as `score`
NonStr == "<non-str>"                \* stands for a score argument that is not a str

Range(s) == {s[i] : i \in 1..Len(s)}
Front(s) == SubSeq(s, 1, Len(s) - 1)
SeqsUpTo(S, n) == UNION {[1..k -> S] : k \in 0..n}

\* ------------------------------------------------- numbers (int / float)
\* Scores are exact rationals <<numerator, denominator>> in lowest terms.
RECURSIVE GCD(_, _)
GCD(a, b) == IF b = 0 THEN a ELSE GCD(b, a % b)
Abs(x) == IF x < 0 THEN -x ELSE x
Rat(n, d) ==
    LET g == GCD(Abs(n), Abs(d))
        s == IF d < 0 THEN -1 ELSE 1
    IN  <<(s * n) \div g, (s * d) \div g>>
Num(n) == <<n, 1>>
RatSub(x, y) == Rat(x[1] * y[2] - y[1] * x[2], x[2] * y[2])
RatDiv(x, y) == Rat(x[1] * y[2], x[2] * y[1])
RatLess(x, y) == x[1] * y[2] < y[1] * x[2]
RatLeq(x, y) == x[1] * y[2] <= y[1] * x[2]
InRange(x) == Abs(x[1]) <= MaxDen /\ x[2] <= MaxDen

\* ------------------------------------------------- external collaborators
\* utils.genotype_is_valid: right length and every gene in the alphabet
genotype_is_valid(genotype) ==
    Len(genotype) = L /\ \A i \in 1..Len(genotype) : genotype[i] \in Genome
\* interface.query_with_architecture(genotype_to_architecture(genotype)): the
\* artifact the oracle resolves a genotype to
query_with_architecture(genotype) == [architecture |-> genotype]

\* ------------------------------------------------------------ Individual
DefaultAge == 0          \* Individual.__init__: age=0
NoneObj == [type |-> "NoneType"]
Individual(net, genotype, age) ==
    [type |-> "Individual", net |-> net, genotype |-> genotype, age |-> Num(age),
     fitness |-> 0, rank |-> 0]

Deref(h, r) == IF r = 0 THEN NoneObj ELSE h[r]
DerefAll(h, refs) == [i \in 1..Len(refs) |-> Deref(h, refs[i])]
isinstance_Individual(r) == r # 0

RECURSIVE Uniq(_)
Uniq(s) ==
    IF s = <<>> THEN <<>>
    ELSE LET u == Uniq(Front(s))
             x == s[Len(s)]
         IN  IF x \in Range(u) THEN u ELSE Append(u, x)
IndexOf(s, x) == CHOOSE i \in 1..Len(s) : s[i] = x

\* a copy that is no copy: the list of the same objects
copy_shallow(h, refs) == [heap |-> h, refs |-> refs]

\* copy.deepcopy of a list of objects: every distinct Individual gets one new
\* object (deepcopy's memo keeps shared references shared)
IsRef(r) == r # 0
copy(h, refs) ==
    LET u == Uniq(SelectSeq(refs, IsRef))
    IN  [heap |-> h \o [k \in 1..Len(u) |-> h[u[k]]],
         refs |-> [i \in 1..Len(refs) |->
                     IF refs[i] = 0 THEN 0 ELSE Len(h) + IndexOf(u, refs[i])]]

VARIABLES
    heap,        \* reference -> Individual (the live objects)
    population,  \* Population._population: a list of references
    extremes,    \* Population.min_<score> / max_<score>, when set
    ret,         \* what the last call returned
    err,         \* the exception the last call raised, or "none"
    call         \* the last call and its arguments

vars == <<heap, population, extremes, ret, err, call>>

NoExtremes == [s \in ScoreNames |-> [set |-> FALSE, min |-> Num(0), max |-> Num(0)]]
None == [kind |-> "None", items |-> <<>>]
List(refs) == [kind |-> "list", items |-> refs]

\* What a call leaves behind: the heap, the population list, the cached
\* extremes, the value returned (references) and the exception raised.
Outcome(h, p, e, r, x) == [heap |-> h, population |-> p, extremes |-> e, ret |-> r, err |-> x]
Here == Outcome(heap, population, extremes, None, "none")
Raised(o, x) == Outcome(o.heap, o.population, o.extremes, None, x)

\* The state after a call: the objects the population no longer reaches are
\* dropped, the others renumbered in population order; the returned objects are
\* kept by value.
Commit(o) ==
    LET live == Uniq(o.population)
    IN  /\ heap' = [k \in 1..Len(live) |-> o.heap[live[k]]]
        /\ population' = [i \in 1..Len(o.population) |-> IndexOf(live, o.population[i])]
        /\ extremes' = o.extremes
        /\ ret' = [kind |-> o.ret.kind, items |-> DerefAll(o.heap, o.ret.items)]
        /\ err' = o.err

\* the last call: its name, the function / score / flag it was given, the list
\* or genotype it was given (by value), the member it was made on and a count
Call(op, name, inplace, arg, target, n) == <<op, name, inplace, arg, target, n>>
CallOp == call[1]
CallName == call[2]
CallInplace == call[3]
CallArg == call[4]
CallTarget == call[5]
CallN == call[6]

\* ------------------------------------------------------------ Individual
\* Individual.update_net
update_net(h, r, oracle_ok) ==
    IF oracle_ok
    THEN [heap |-> [h EXCEPT ![r].net = query_with_architecture(h[r].genotype)], err |-> "none"]
    ELSE [heap |-> h, err |-> "OracleError"]

\* Individual.update_genotype (the setter): the ValueError of an invalid
\* genotype is built but not raised, so the check decides nothing
update_genotype(h, r, new_genotype, oracle_ok) ==
    LET value_error_built == ~genotype_is_valid(new_genotype)
        raised == FALSE
    IN  IF raised THEN [heap |-> h, err |-> "ValueError"]
        ELSE update_net([h EXCEPT ![r].genotype = new_genotype], r, oracle_ok)

\* The evaluation metrics callers pass: number of "b" genes of the artifact,
\* scaled; "picky" fails on an artifact whose first gene is "b".
Metrics == {"m246", "picky"}
CountB(g) == Cardinality({i \in 1..Len(g) : g[i] = "b"})
Metric(metric, net) ==
    IF metric = "picky" /\ Len(net.architecture) > 0 /\ net.architecture[1] = "b"
    THEN [raises |-> TRUE, value |-> 0]
    ELSE [raises |-> FALSE, value |-> 2 * (1 + CountB(net.architecture))]

\* Individual.update_fitness
Individual_update_fitness(h, r, metric) ==
    LET m == Metric(metric, h[r].net)
    IN  IF m.raises THEN [heap |-> h, err |-> "MetricError"]
        ELSE [heap |-> [h EXCEPT ![r].fitness = m.value], err |-> "none"]

\* Individual.update_ranking
Individual_update_ranking(h, r, new_rank) == [h EXCEPT ![r].rank = new_rank]

\* getattr(individual, score) / setattr(individual, score, value): fitness is a
\* property without a setter, age a plain attribute
getattr(ind, score) == IF score = "fitness" THEN Num(ind.fitness) ELSE ind.age
HasSetter(score) == score # "fitness"

\* ------------------------------------------------------------ Population
\* the genotypes the oracle's random samples are drawn from
Block(k) == [i \in 1..L |-> IF i <= k THEN "b" ELSE "a"]
SampleGenotypes == {Block(0), Block(1), Block(L)}
Samples == UNION {[1..k -> SampleGenotypes] : k \in 1..MaxPop}

\* generate_population: one Individual per sample the oracle returns
generate_population(samples) ==
    [i \in 1..Len(samples) |->
        Individual(query_with_architecture(samples[i]), samples[i], DefaultAge)]

\* A caller-supplied list: each element is a member of the population, a newly
\* constructed Individual, or an object of another type.
Elements(h, ages) ==
    [src : {"member"}, ref : 1..Len(h), age : {0}]
      \cup [src : {"new"}, ref : {0}, age : ages]
      \cup [src : {"other"}, ref : {0}, age : {0}]
CallerGenotype == Block(0)
RECURSIVE Materialize(_, _)
Materialize(h, elems) ==
    IF elems = <<>> THEN [heap |-> h, refs |-> <<>>]
    ELSE LET m == Materialize(h, Front(elems))
             e == elems[Len(elems)]
         IN  IF e.src = "new"
             THEN [heap |-> Append(m.heap,
                       Individual(query_with_architecture(CallerGenotype), CallerGenotype, e.age)),
                   refs |-> Append(m.refs, Len(m.heap) + 1)]
             ELSE [heap |-> m.heap, refs |-> Append(m.refs, e.ref)]

\* Population.__init__: init_population is True or a caller-supplied list
Truthy(init_population) ==
    IF init_population.kind = "bool" THEN init_population.val
    ELSE Len(init_population.items) > 0
Population_init(init_population, samples) ==
    IF Truthy(init_population)
    THEN Outcome(generate_population(samples), [i \in 1..Len(samples) |-> i],
                 NoExtremes, None, "none")
    ELSE LET m == Materialize(<<>>, init_population.items)
         IN  Outcome(m.heap, m.refs, NoExtremes, None, "none")

\* Population.update_population
update_population(o, new_population) ==
    IF \A i \in 1..Len(new_population) : isinstance_Individual(new_population[i])
    THEN Outcome(o.heap, new_population, o.extremes, None, "none")
    ELSE Raised(o, "ValueError")

\* sorted(items, key=..., reverse=...): a stable sort; keys[i] is the key of
\* items[i].  SortIdx is the sorted order of the indices 1..n.
RECURSIVE SortIdx(_, _, _)
SortIdx(keys, reverse, n) ==
    IF n = 0 THEN <<>>
    ELSE LET s == SortIdx(keys, reverse, n - 1)
             NotAfter(i) == IF reverse THEN RatLeq(keys[n], keys[i])
                            ELSE RatLeq(keys[i], keys[n])
             k == Cardinality({j \in 1..Len(s) : NotAfter(s[j])})
         IN  SubSeq(s, 1, k) \o <<n>> \o SubSeq(s, k + 1, Len(s))
\* a sort in the opposite order, then reversed: equal keys end up swapped
sorted_then_reversed(items, keys, reverse) ==
    LET idx == SortIdx(keys, ~reverse, Len(items))
    IN  [i \in 1..Len(items) |-> items[idx[Len(items) + 1 - i]]]
sorted(items, keys, reverse) ==
    LET idx == SortIdx(keys, reverse, Len(items))
    IN  [i \in 1..Len(items) |-> items[idx[i]]]

Keys(h, refs, score) == [i \in 1..Len(refs) |-> getattr(h[refs[i]], score)]

\* Population.update_ranking
RECURSIVE Enumerate(_, _)
Enumerate(h, sorted_individuals) ==
    IF sorted_individuals = <<>> THEN h
    ELSE LET n == Len(sorted_individuals)
         IN  Individual_update_ranking(Enumerate(h, Front(sorted_individuals)),
                                       sorted_individuals[n], n - 1)
update_ranking(o) ==
    LET sorted_individuals == sorted(o.population, Keys(o.heap, o.population, "fitness"), TRUE)
    IN  Outcome(Enumerate(o.heap, sorted_individuals), o.population, o.extremes, None, "none")

\* Population.update_fitness: one member after the other, stopping at the
\* first failure of the metric
RECURSIVE FitnessLoop(_, _, _)
FitnessLoop(h, refs, metric) ==
    IF refs = <<>> THEN [heap |-> h, err |-> "none"]
    ELSE LET done == FitnessLoop(h, Front(refs), metric)
         IN  IF done.err # "none" THEN done
             ELSE Individual_update_fitness(done.heap, refs[Len(refs)], metric)
update_fitness(o, fitness_function) ==
    LET r == FitnessLoop(o.heap, o.population, fitness_function)
    IN  Outcome(r.heap, o.population, o.extremes, None, r.err)

\* The functions callers pass to apply_on_individuals.  Each is handed one
\* individual and returns an object:
\*   identity  returns the individual untouched
\*   reseed    assigns its genotype (the setter), re-evaluates it and returns it
\*   discard   returns an object that is no Individual
\*   fail      raises
Transforms == {"identity", "reseed", "discard", "fail"}
Transform(function, h, r) ==
    CASE function = "identity" -> [heap |-> h, ref |-> r, err |-> "none"]
      [] function = "reseed" ->
            [heap |-> Individual_update_fitness(
                          update_genotype(h, r, Block(L), TRUE).heap, r, "m246").heap,
             ref |-> r, err |-> "none"]
      [] function = "discard" -> [heap |-> h, ref |-> 0, err |-> "none"]
      [] OTHER -> [heap |-> h, ref |-> 0, err |-> "TransformError"]

\* [function(individual) for individual in ...]
RECURSIVE Comprehension(_, _, _)
Comprehension(function, h, refs) ==
    IF refs = <<>> THEN [heap |-> h, refs |-> <<>>, err |-> "none"]
    ELSE LET done == Comprehension(function, h, Front(refs))
             t == Transform(function, done.heap, refs[Len(refs)])
         IN  IF done.err # "none" THEN done
             ELSE [heap |-> t.heap, refs |-> Append(done.refs, t.ref), err |-> t.err]

\* Population.apply_on_individuals
apply_on_individuals(o, function, inplace) ==
    LET copied == copy(o.heap, o.population)
        modified_individuals == Comprehension(function, copied.heap, copied.refs)
        applied == Outcome(modified_individuals.heap, o.population, o.extremes, None, "none")
    IN  IF modified_individuals.err # "none" THEN Raised(applied, modified_individuals.err)
        ELSE IF inplace THEN update_population(applied, modified_individuals.refs)
        ELSE Outcome(applied.heap, applied.population, applied.extremes,
                     List(modified_individuals.refs), "none")

\* Population.set_extremes
set_extremes(o, score) ==
    IF o.population = <<>> THEN Raised(o, "IndexError")
    ELSE LET keys == Keys(o.heap, o.population, score)
             sorted_population == sorted(keys, keys, FALSE)
             min_value == sorted_population[1]
             max_value == sorted_population[Len(sorted_population)]
         IN  Outcome(o.heap, o.population,
                     [o.extremes EXCEPT ![score] = [set |-> TRUE, min |-> min_value, max |-> max_value]],
                     None, "none")

\* minmax_individual of normalize_scores: the quotient is computed first, then
\* stored on a copy of the individual
minmax_individual(h, r, score, min_value, max_value) ==
    LET new_individual == Len(h) + 1
        copied == Append(h, h[r])
    IN  IF max_value = min_value
        THEN [heap |-> copied, ref |-> 0, err |-> "ZeroDivisionError"]
        ELSE IF ~HasSetter(score)
        THEN [heap |-> copied, ref |-> 0, err |-> "AttributeError"]
        ELSE [heap |-> [copied EXCEPT ![new_individual].age =
                            RatDiv(RatSub(getattr(h[r], score), min_value),
                                   RatSub(max_value, min_value))],
              ref |-> new_individual, err |-> "none"]

\* list(map(minmax_individual, modified_individuals))
RECURSIVE MapMinmax(_, _, _, _, _)
MapMinmax(h, refs, score, min_value, max_value) ==
    IF refs = <<>> THEN [heap |-> h, refs |-> <<>>, err |-> "none"]
    ELSE LET done == MapMinmax(h, Front(refs), score, min_value, max_value)
             m == minmax_individual(done.heap, refs[Len(refs)], score, min_value, max_value)
         IN  IF done.err # "none" THEN done
             ELSE [heap |-> m.heap, refs |-> Append(done.refs, m.ref), err |-> m.err]

\* Population.normalize_scores; depth counts the nested calls of the handler
RECURSIVE normalize_scores(_, _, _, _)
normalize_scores(o, score, inplace, depth) ==
    LET handler ==
            LET s == set_extremes(o, score)
                again == normalize_scores(s, score, TRUE, depth + 1)
            IN  IF s.err # "none" THEN s
                ELSE Outcome(again.heap, again.population, again.extremes, None, again.err)
        min_value == o.extremes[score].min
        max_value == o.extremes[score].max
        modified_individuals == copy(o.heap, o.population)
        new_population == MapMinmax(modified_individuals.heap, modified_individuals.refs,
                                    score, min_value, max_value)
        normalized == Outcome(new_population.heap, o.population, o.extremes, None, "none")
    IN  IF depth > RecursionLimit THEN Raised(o, "RecursionError")
        ELSE IF score = NonStr THEN Raised(o, "ValueError")
        ELSE IF ~o.extremes[score].set THEN handler
        ELSE IF new_population.err = "AttributeError" THEN handler
        ELSE IF new_population.err # "none" THEN Raised(o, new_population.err)
        ELSE IF inplace THEN update_population(normalized, new_population.refs)
        ELSE Outcome(normalized.heap, normalized.population, normalized.extremes,
                     List(new_population.refs), "none")

\* --------------------------------------------------------------- Genetic
\* set.difference(gene): the genes of the alphabet that are no character of `gene`
\* (a gene is one character here)
difference(genome, gene) == genome \ {gene}
\* np.random.choice(a=<a set>, size=1): numpy takes a set for a 0-dimensional
\* array and raises
np_random_choice(a) == [raises |-> TRUE, err |-> "ValueError", value |-> ""]

\* Genetic.mutate; mutant_locus is the locus np.random.randint draws
mutate(o, individual, n_loci, mutant_locus) ==
    LET copied == copy(o.heap, <<individual>>)
        mutant_individual == copied.refs[1]
        mutant_genotype == copied.heap[mutant_individual].genotype
        mutant_gene == mutant_genotype[mutant_locus + 1]
        mutations == difference(Genome, mutant_gene)
        drawn == np_random_choice(mutations)
    IN  IF n_loci = 0 THEN Raised(o, "UnboundLocalError")
        ELSE IF drawn.raises THEN Raised(o, drawn.err)
        ELSE Raised(o, "TypeError")

\* Genetic.recombine; individuals is a list of references, recombination_locus
\* the locus np.random.randint draws, dominant whether the realization is below
\* cross_probability.  Either branch slices an Individual, not its genotype.
recombine(o, individuals, recombination_locus, dominant) ==
    IF Len(individuals) # 2 THEN Raised(o, "ValueError")
    ELSE LET recombinant == copy(o.heap, <<individuals[1]>>)
         IN  IF dominant THEN Raised(o, "TypeError")
             ELSE Raised(o, "TypeError")

\* --------------------------------------------------------------- actions
DefaultInit == [kind |-> "bool", val |-> TRUE, items |-> <<>>]
CallerAges == 0..MaxAge
InitInputs ==
    {DefaultInit}
      \cup {[kind |-> "list", val |-> FALSE, items |-> s] :
               s \in SeqsUpTo({e \in Elements(<<>>, {DefaultAge}) : e.src # "member"}, MaxPop)}
Supplied(items) ==
    LET m == Materialize(<<>>, items) IN DerefAll(m.heap, m.refs)

\* Population(space): the default construction, from the oracle's samples
Init ==
    \E samples \in Samples :
        LET o == Population_init(DefaultInit, samples)
        IN  /\ heap = o.heap
            /\ population = o.population
            /\ extremes = o.extremes
            /\ ret = None
            /\ err = "none"
            /\ call = Call("__init__", "generated", FALSE, <<>>, 0, 0)

\* Population(space, init_population=...)
Construct ==
    \E init_population \in InitInputs :
        \E samples \in IF Truthy(init_population) THEN Samples ELSE {<<>>} :
            /\ Commit(Population_init(init_population, samples))
            /\ call' = Call("__init__",
                            IF Truthy(init_population) THEN "generated" ELSE "wrapped",
                            init_population.kind = "list",
                            Supplied(init_population.items), 0, 0)

\* update_population(new_population): a list of members and new Individuals of
\* the default age, or a list of new Individuals and objects of other types
CallerLists(h) ==
    SeqsUpTo({e \in Elements(h, {DefaultAge}) : e.src # "other"}, MaxPop)
      \cup SeqsUpTo({e \in Elements(h, {DefaultAge}) : e.src # "member"}, MaxPop)
UpdatePopulation ==
    \E elems \in CallerLists(heap) :
        LET m == Materialize(heap, elems)
        IN  /\ Commit(update_population(Outcome(m.heap, population, extremes, None, "none"),
                                        m.refs))
            /\ call' = Call("update_population", "", TRUE, <<>>, 0, Len(elems))

\* update_population(new_population): a next generation of new Individuals
\* whose ages the caller chose
NextGeneration ==
    \E elems \in SeqsUpTo([src : {"new"}, ref : {0}, age : CallerAges], MaxPop) :
        LET m == Materialize(heap, elems)
        IN  /\ Commit(update_population(Outcome(m.heap, population, extremes, None, "none"),
                                        m.refs))
            /\ call' = Call("update_population", "aged", TRUE, <<>>, 0, Len(elems))

UpdateRanking ==
    /\ Commit(update_ranking(Here))
    /\ call' = Call("update_ranking", "", TRUE, <<>>, 0, 0)

UpdateFitness ==
    \E metric \in Metrics :
        /\ Commit(update_fitness(Here, metric))
        /\ call' = Call("update_fitness", metric, TRUE, <<>>, 0, 0)

ApplyOnIndividuals ==
    \E function \in Transforms, inplace \in BOOLEAN :
        /\ Commit(apply_on_individuals(Here, function, inplace))
        /\ call' = Call("apply_on_individuals", function, inplace, <<>>, 0, 0)

SetExtremes ==
    \E score \in ScoreNames :
        /\ Commit(set_extremes(Here, score))
        /\ call' = Call("set_extremes", score, TRUE, <<>>, 0, 0)

\* normalize_scores(score, inplace); a call whose scores would leave the
\* modelled range of numbers is left out
NormalizeScores ==
    \E score \in ScoreNames \cup {NonStr}, inplace \in BOOLEAN :
        LET o == normalize_scores(Here, score, inplace, 1)
        IN  /\ \A r \in Range(o.population) \cup Range(o.ret.items) : InRange(o.heap[r].age)
            /\ Commit(o)
            /\ call' = Call("normalize_scores", score, inplace, <<>>, 0, 0)

\* member.update_genotype = new_genotype, on the i-th member
SetGenotype ==
    \E i \in 1..Len(population), new_genotype \in NewGenotypes, oracle_ok \in BOOLEAN :
        LET u == update_genotype(heap, population[i], new_genotype, oracle_ok)
        IN  /\ Commit(Outcome(u.heap, population, extremes, None, u.err))
            /\ call' = Call("update_genotype", "", TRUE, new_genotype, i, 0)

\* Genetic.mutate(member, n_loci), on the i-th member
Mutate ==
    \E i \in 1..Len(population), n_loci \in 0..MaxLoci :
        \E mutant_locus \in 0..(Len(heap[population[i]].genotype) - 1) :
            /\ Commit(mutate(Here, population[i], n_loci, mutant_locus))
            /\ call' = Call("mutate", "", FALSE, <<>>, i, n_loci)

\* Genetic.recombine(individuals), on a list of one to three members
Recombine ==
    \E individuals \in UNION {[1..k -> 1..Len(population)] : k \in 1..3} :
        \E recombination_locus \in 0..(Len(heap[population[individuals[1]]].genotype) - 1),
           dominant \in BOOLEAN :
            /\ Commit(recombine(Here,
                                [k \in 1..Len(individuals) |-> population[individuals[k]]],
                                recombination_locus, dominant))
            /\ call' = Call("recombine", "", FALSE, individuals, 0, Len(individuals))

Next ==
    \/ Construct
    \/ UpdatePopulation
    \/ NextGeneration
    \/ UpdateRanking
    \/ UpdateFitness
    \/ ApplyOnIndividuals
    \/ SetExtremes
    \/ NormalizeScores
    \/ SetGenotype
    \/ Mutate
    \/ Recombine

\* every call of the interface, in any order
Spec == Init /\ [][Next]_vars

\* The component specifications: the calls of one part of the interface, on
\* the populations the other calls of that part build.
NextConstruct ==
    \/ Construct
    \/ UpdatePopulation
SpecConstruct == Init /\ [][NextConstruct]_vars

NextPopulation ==
    \/ UpdatePopulation
    \/ UpdateFitness
    \/ UpdateRanking
    \/ ApplyOnIndividuals
SpecPopulation == Init /\ [][NextPopulation]_vars

NextNormalize ==
    \/ NextGeneration
    \/ UpdateFitness
    \/ SetExtremes
    \/ NormalizeScores
SpecNormalize == Init /\ [][NextNormalize]_vars

NextGenetic ==
    \/ SetGenotype
    \/ Mutate
    \/ Recombine
SpecGenetic == Init /\ [][NextGenetic]_vars

\* ------------------------------------------------------------ properties
Member(i) == heap[population[i]]
MemberAfter(i) == heap'[population'[i]]
Positions == 1..Len(population)
Distinct(refs) == Cardinality(Range(refs)) = Len(refs)
MinOf(S) == CHOOSE x \in S : \A y \in S : RatLeq(x, y)
MaxOf(S) == CHOOSE x \in S : \A y \in S : RatLeq(y, x)
ScoreValues(score) == {getattr(Member(i), score) : i \in Positions}

\* what a transform makes of an individual, by value
TransformedValue(function, ind) ==
    CASE function = "identity" -> ind
      [] function = "reseed" ->
            [ind EXCEPT !.genotype = Block(L),
                        !.net = query_with_architecture(Block(L)),
                        !.fitness = Metric("m246", query_with_architecture(Block(L))).value]
      [] OTHER -> NoneObj

\* C1: apply_on_individuals(f, inplace=False) leaves the live population as it
\* was - the same members in the same order, each with the genotype and the
\* fitness it had - whatever f does to the individual it is handed, and returns
\* the transformed sequence (f's failure on a member is the only way out).
C1_Step ==
    (call'[1] = "apply_on_individuals" /\ ~call'[3]) =>
        /\ population' = population
        /\ \A i \in Positions :
              /\ MemberAfter(i).genotype = Member(i).genotype
              /\ MemberAfter(i).fitness = Member(i).fitness
        /\ IF call'[2] = "fail" /\ population # <<>>
           THEN err' = "TransformError"
           ELSE /\ err' = "none"
                /\ ret'.kind = "list"
                /\ ret'.items = [i \in Positions |-> TransformedValue(call'[2], Member(i))]
C1_ApplyCopyLeavesPopulation == [][C1_Step]_vars

\* C1 witness: a transform that rewrote genotype and fitness of every individual
\* it was handed has returned, and the members still differ from what it returned
C1_Witness ==
    /\ CallOp = "apply_on_individuals" /\ ~CallInplace /\ CallName = "reseed"
    /\ err = "none" /\ ret.kind = "list" /\ Len(population) >= 2
    /\ \A i \in Positions :
          /\ ret.items[i].genotype # Member(i).genotype
          /\ ret.items[i].fitness # Member(i).fitness

\* the 0-based position of member i in the stable descending order of fitness
StablePosition(fit, i) ==
    Cardinality({j \in DOMAIN fit : fit[j] > fit[i]})
      + Cardinality({j \in DOMAIN fit : j < i /\ fit[j] = fit[i]})
C5_Ranked ==
    LET N == Len(population')
        fit == [i \in 1..N |-> MemberAfter(i).fitness]
        rank == [i \in 1..N |-> MemberAfter(i).rank]
    IN  /\ population' = population
        /\ \A i \in 1..N : fit[i] = Member(i).fitness
        /\ \A i \in 1..N : rank[i] \in 0..(N - 1) /\ rank[i] = StablePosition(fit, i)
        /\ \A i, j \in 1..N : i # j => rank[i] # rank[j]
        /\ \A i, j \in 1..N : fit[i] > fit[j] => rank[i] < rank[j]

\* C5 as stated: update_ranking on a population of N members gives every member
\* a unique rank in 0..N-1, its position in the stable descending order of
\* fitness, and leaves fitness and order alone.
C5_Original == [][call'[1] = "update_ranking" => C5_Ranked]_vars

\* C5 amended: the same, for a population whose N members are N distinct
\* objects (a list that holds one Individual twice gives both entries the rank
\* written last).
C5_RankingOfDistinctMembers ==
    [][(call'[1] = "update_ranking" /\ Distinct(population)) => C5_Ranked]_vars

\* C5 witness: two distinct members of equal, evaluated fitness were ranked 0
\* and 1 in population order, over the ranks they had
C5_Witness ==
    /\ CallOp = "update_ranking" /\ Len(population) = 2 /\ Distinct(population)
    /\ Member(1).fitness = Member(2).fitness /\ Member(1).fitness > 0
    /\ Member(1).rank = 0 /\ Member(2).rank = 1

\* C6: update_fitness(metric) is all-or-nothing: when the metric fails on a
\* member no member's fitness has changed, and when it fails on none every
\* member's fitness is metric(artifact).
C6_Step ==
    call'[1] = "update_fitness" =>
        /\ population' = population
        /\ IF err' # "none"
           THEN \A i \in Positions : MemberAfter(i).fitness = Member(i).fitness
           ELSE \A i \in Positions :
                   MemberAfter(i).fitness = Metric(call'[2], Member(i).net).value
C6_UpdateFitnessAllOrNothing == [][C6_Step]_vars

\* C10: a Population constructed from a caller-supplied collection holds
\* exactly the supplied candidates, without asking the oracle, and a collection
\* with an element that is no Candidate is rejected.
C10_ConstructorWraps ==
    (CallOp = "__init__" /\ CallInplace) =>
        IF \A i \in 1..Len(CallArg) : CallArg[i].type = "Individual"
        THEN /\ err = "none"
             /\ CallName = "wrapped"
             /\ DerefAll(heap, population) = CallArg
        ELSE err # "none"

\* C2: normalize_scores("fitness") on a population whose fitness values are not
\* all equal completes, and every member's fitness becomes
\* (fitness - min) / (max - min).
C2_Step ==
    (/\ call'[1] = "normalize_scores" /\ call'[2] = "fitness" /\ call'[3]
     /\ population # <<>>
     /\ MinOf(ScoreValues("fitness")) # MaxOf(ScoreValues("fitness"))) =>
        /\ err' = "none"
        /\ Len(population') = Len(population)
        /\ \A i \in Positions :
              getattr(MemberAfter(i), "fitness") =
                  RatDiv(RatSub(getattr(Member(i), "fitness"), MinOf(ScoreValues("fitness"))),
                         RatSub(MaxOf(ScoreValues("fitness")), MinOf(ScoreValues("fitness"))))
C2_NormalizeFitness == [][C2_Step]_vars

\* C3: normalize_scores(score, inplace=False) returns the normalized sequence
\* and leaves the live population and its members' scores untouched, also when
\* the extremes of the score are not cached yet.
C3_Step ==
    (call'[1] = "normalize_scores" /\ ~call'[3] /\ call'[2] \in ScoreNames) =>
        /\ population' = population
        /\ heap' = heap
        /\ err' = "none" => (ret'.kind = "list" /\ Len(ret'.items) = Len(population))
C3_NormalizeCopyLeavesPopulation == [][C3_Step]_vars

\* C4: normalize_scores on a population whose members all have the same value
\* of the score does not end in a division error: every member gets one defined
\* constant, or DegenerateRange is raised and the population is as it was.
C4_Step ==
    (/\ call'[1] = "normalize_scores" /\ call'[2] \in ScoreNames
     /\ population # <<>>
     /\ Cardinality(ScoreValues(call'[2])) = 1) =>
        /\ err' \in {"none", "DegenerateRange"}
        /\ err' = "DegenerateRange" => (population' = population /\ heap' = heap)
        /\ err' = "none" =>
              Cardinality({getattr(MemberAfter(i), call'[2]) : i \in 1..Len(population')}) = 1
C4_DegenerateRangeHandled == [][C4_Step]_vars

\* C7: assigning a genotype that fails genotype_is_valid raises a validation
\* error and leaves the candidate's genotype and artifact as they were; a valid
\* genotype that was stored is followed by the refreshed artifact.
C7_Step ==
    call'[1] = "update_genotype" =>
        IF genotype_is_valid(call'[4])
        THEN err' = "none" =>
                /\ MemberAfter(call'[5]).genotype = call'[4]
                /\ MemberAfter(call'[5]).net = query_with_architecture(call'[4])
        ELSE /\ err' = "ValueError"
             /\ MemberAfter(call'[5]).genotype = Member(call'[5]).genotype
             /\ MemberAfter(call'[5]).net = Member(call'[5]).net
C7_InvalidGenotypeRejected == [][C7_Step]_vars

\* C8: after any sequence of calls, failed ones included, every candidate's
\* artifact is the oracle's resolution of its genotype.
C8_ArtifactFollowsGenotype ==
    \A r \in 1..Len(heap) : heap[r].net = query_with_architecture(heap[r].genotype)

\* C9: mutate(candidate, n_loci=1) on a valid genotype g returns a Candidate
\* whose genotype differs from g at exactly one position, by a gene of the
\* alphabet, and the candidate handed in still has genotype g.
C9_Step ==
    (/\ call'[1] = "mutate" /\ call'[6] = 1
     /\ genotype_is_valid(Member(call'[5]).genotype)) =>
        /\ err' = "none"
        /\ ret'.kind = "Individual"
        /\ Len(ret'.items) = 1
        /\ LET g == Member(call'[5]).genotype
               m == ret'.items[1].genotype
           IN  /\ Len(m) = Len(g)
               /\ Cardinality({k \in 1..Len(g) : m[k] # g[k]}) = 1
               /\ \A k \in 1..Len(g) : m[k] \in Genome
        /\ MemberAfter(call'[5]).genotype = Member(call'[5]).genotype
C9_MutateOneLocus == [][C9_Step]_vars
====
